---- MODULE Spec2Model ----
(***************************************************************************)
(* Student expense tracker (src/et.py): a Streamlit script over an SQLite  *)
(* database.  Every widget event of a browser session re-executes the      *)
(* script from the top; a button reads True only in the run its own click  *)
(* triggered.  Sessions run concurrently and share only the database, in   *)
(* which every statement commits on its own.                               *)
(*                                                                         *)
(* Representation.  A date object is <<year, month, day>>.  The text       *)
(* "YYYY-MM-DD" that strftime produces is represented by the integer       *)
(* YYYYMMDD, whose numeric order is the lexicographic order of the text;   *)
(* the period "YYYY-MM" by the integer YYYYMM.  A SHA-256 digest is        *)
(* represented by its first eight hexadecimal digits.                      *)
(***************************************************************************)
EXTENDS Integers, Sequences, FiniteSets, TLC

VARIABLES
    users,          \* table users: rows [id, username, password]
    user_seq,       \* AUTOINCREMENT counter of users
    expenses,       \* table expenses: rows [id, user_id, date, category, amount, note]
    expense_seq,    \* AUTOINCREMENT counter of expenses
    logged_in,      \* st.session_state["logged_in"], per session
    username,       \* st.session_state["username"], per session
    pc,             \* per session: "idle", "start" (script at its top), "loaded" (past line 125)
    click,          \* per session: the widget event of the current/last run, with the widget values
    user_id,        \* per session: the local user_id of line 124
    df,             \* per session: the local df of line 125
    filtered_df,    \* per session: the local filtered_df of lines 173-176 (rows shown with buttons)
    form,           \* per session: ID of the record whose edit form is on the page, 0 if none
    msg,            \* per session: the st.success / st.error / st.warning text of the last run
    csv_data,       \* per session: the rows behind the Download CSV button, <<>> if none
    top_category,   \* per session: the dashboard's Highest Spending Category
    created         \* history: username -> secret of each successful sign-up

vars == <<users, user_seq, expenses, expense_seq, logged_in, username, pc, click,
          user_id, df, filtered_df, form, msg, csv_data, top_category, created>>

store == <<users, user_seq, expenses, expense_seq>>

----------------------------------------------------------------------------
(* Bounds and input sets *)

MaxExpenses == 2
MaxAmount == 2
MaxRows == 3

Sessions == {"s1", "s2"}
Usernames == {"", "ann", "bob"}
Passwords == {"", "a", "b"}

None == "None"
NA == "N/A"

----------------------------------------------------------------------------
(* Program constants *)

Categories == <<"Food", "Travel", "Shopping", "Entertainment", "Other">>

CategorySet == {Categories[i] : i \in 1..Len(Categories)}

Columns == <<"ID", "Date", "Category", "Amount", "Note">>

number_input_min_value_0 == 1 - 1

\* st.number_input(min_value=1, step=1), lines 152 and 192
number_input_min_value == 1

MsgFieldsEmpty == "Fields cannot be empty."
MsgMismatch == "Passwords do not match."
MsgCreated == "Account created! Please login."
MsgDuplicate == "Username already exists."
MsgWelcome == "Welcome"
MsgInvalidLogin == "Invalid username or password"
MsgAdded == "Expense added successfully!"
MsgUpdated == "Expense Updated! Refresh to see changes."
MsgDeleted == "Deleted expense ID"

----------------------------------------------------------------------------
(* Pure helpers *)

hash_password_collide(password) == "e3b0c442"

hash_password(password) ==
    CASE password = ""  -> "e3b0c442"
      [] password = "a" -> "ca978112"
      [] password = "b" -> "3e23e816"

strftime(d) == d[1] * 10000 + d[2] * 100 + d[3]

to_datetime(text) == <<text \div 10000, (text \div 100) % 100, text % 100>>

DateLeq(a, b) ==
    \/ a[1] < b[1]
    \/ a[1] = b[1] /\ a[2] < b[2]
    \/ a[1] = b[1] /\ a[2] = b[2] /\ a[3] <= b[3]

to_period_M(d) == d[1] * 100 + d[2]

\* First character code of each category name: the names differ in their first
\* character, so Python's string order on them is the order of these codes.
FirstChar(c) ==
    CASE c = "Entertainment" -> 69
      [] c = "Food"          -> 70
      [] c = "Other"         -> 79
      [] c = "Shopping"      -> 83
      [] c = "Travel"        -> 84

StrLess(a, b) == FirstChar(a) < FirstChar(b)

Range(s) == {s[i] : i \in 1..Len(s)}

RECURSIVE SeqSum(_)
SeqSum(s) == IF s = <<>> THEN 0 ELSE Head(s) + SeqSum(Tail(s))

----------------------------------------------------------------------------
(* The database *)

UniqueViolation_off(table, name) == FALSE

\* username TEXT UNIQUE NOT NULL: the INSERT raises IntegrityError
UniqueViolation(table, name) == \E r \in table : r.username = name

\* SELECT id FROM users WHERE username=?  (0 stands for Python's None: ids start at 1)
get_user_id(name) ==
    IF \E r \in users : r.username = name
    THEN (CHOOSE r \in users : r.username = name).id
    ELSE 0

\* SELECT * FROM users WHERE username=? AND password=?
SelectUser(name, hashed) == {r \in users : r.username = name /\ r.password = hashed}

DataFrame(rows) == [columns |-> Columns, rows |-> rows]

RECURSIVE RowsById(_)
RowsById(S) ==
    IF S = {} THEN <<>>
    ELSE LET m == CHOOSE x \in S : \A y \in S : x.id <= y.id
         IN  <<[ID |-> m.id, Date |-> m.date, Category |-> m.category,
                Amount |-> m.amount, Note |-> m.note]>> \o RowsById(S \ {m})

get_expenses_all(uid) == DataFrame(RowsById(expenses))

\* SELECT id,date,category,amount,note FROM expenses WHERE user_id=?  (rowid order)
get_expenses(uid) == DataFrame(RowsById({e \in expenses : e.user_id = uid}))

\* INSERT INTO expenses(user_id,date,category,amount,note)
InsertExpense(table, seq, uid, date, category, amount, note) ==
    table \cup {[id |-> seq + 1, user_id |-> uid, date |-> date,
                 category |-> category, amount |-> amount, note |-> note]}

\* UPDATE expenses SET date=?,category=?,amount=?,note=? WHERE id=?
UpdateExpense(table, id, date, category, amount, note) ==
    {IF e.id = id
     THEN [e EXCEPT !.date = date, !.category = category, !.amount = amount, !.note = note]
     ELSE e : e \in table}

\* DELETE FROM expenses WHERE id=?
DeleteExpense(table, id) == {e \in table : e.id # id}

----------------------------------------------------------------------------
(* Aggregation and export over a DataFrame *)

IDs(frame) == {frame.rows[i].ID : i \in 1..Len(frame.rows)}

RECURSIVE SortedCategories(_)
SortedCategories(S) ==
    IF S = {} THEN <<>>
    ELSE LET m == CHOOSE x \in S : \A y \in S \ {x} : StrLess(x, y)
         IN  <<m>> \o SortedCategories(S \ {m})

RECURSIVE AppearanceOrder(_)
AppearanceOrder(rows) ==
    IF rows = <<>> THEN <<>>
    ELSE LET c == Head(rows).Category
             IsOther(r) == r.Category # c
         IN  <<c>> \o AppearanceOrder(SelectSeq(Tail(rows), IsOther))

groupby_unsorted(frame) ==
    LET keys == AppearanceOrder(frame.rows)
    IN  [i \in 1..Len(keys) |->
            LET InGroup(r) == r.Category = keys[i]
                grp == SelectSeq(frame.rows, InGroup)
            IN  [Category |-> keys[i],
                 Amount |-> SeqSum([j \in 1..Len(grp) |-> grp[j].Amount])]]

\* df.groupby("Category")["Amount"].sum(): one entry per category present, keys sorted
groupby_Category_sum(frame) ==
    LET keys == SortedCategories({frame.rows[i].Category : i \in 1..Len(frame.rows)})
    IN  [i \in 1..Len(keys) |->
            LET InGroup(r) == r.Category = keys[i]
                grp == SelectSeq(frame.rows, InGroup)
            IN  [Category |-> keys[i],
                 Amount |-> SeqSum([j \in 1..Len(grp) |-> grp[j].Amount])]]

\* Series.idxmax(): the label of the first occurrence of the maximum
idxmax(series) ==
    LET i == CHOOSE k \in 1..Len(series) :
                 /\ \A j \in 1..Len(series) : series[j].Amount <= series[k].Amount
                 /\ \A j \in 1..(k - 1) : series[j].Amount < series[k].Amount
    IN  series[i].Category

\* line 130
TopCategory(frame) ==
    IF frame.rows # <<>> THEN idxmax(groupby_Category_sum(frame)) ELSE NA

\* lines 167-176: the filter widgets fall back to their defaults when the submitted
\* value is not offered (category absent from df) or was never set (<<0, 0, 0>>)
Filter(frame, c) ==
    LET n == Len(frame.rows)
        dates == {frame.rows[i].Date : i \in 1..n}
        cats == {frame.rows[i].Category : i \in 1..n}
        min == CHOOSE d \in dates : \A e \in dates : d <= e
        max == CHOOSE d \in dates : \A e \in dates : e <= d
        filter_category == IF c.fcat \in cats THEN c.fcat ELSE "All"
        start_date == IF c.fstart = <<0, 0, 0>> THEN to_datetime(min) ELSE c.fstart
        end_date == IF c.fend = <<0, 0, 0>> THEN to_datetime(max) ELSE c.fend
        Keep(r) == /\ filter_category # "All" => r.Category = filter_category
                   /\ DateLeq(start_date, to_datetime(r.Date))
                   /\ DateLeq(to_datetime(r.Date), end_date)
    IN  [frame EXCEPT !.rows = SelectSeq(frame.rows, Keep)]

\* line 223: filtered_df["Month"] = pd.to_datetime(filtered_df["Date"]).dt.to_period("M")
WithMonth(frame) ==
    [columns |-> Append(frame.columns, "Month"),
     rows |-> [i \in 1..Len(frame.rows) |->
                  [col \in DOMAIN frame.rows[i] \cup {"Month"} |->
                      IF col = "Month" THEN to_period_M(to_datetime(frame.rows[i].Date))
                      ELSE frame.rows[i][col]]]]

\* DataFrame.to_csv(index=False): the header line, then one line per row
to_csv(frame) ==
    <<frame.columns>> \o
    [i \in 1..Len(frame.rows) |->
        [j \in 1..Len(frame.columns) |-> frame.rows[i][frame.columns[j]]]]

----------------------------------------------------------------------------
(* Widget events.  A click carries the values of the widgets of the page. *)

\* a date input left at its default value
NoDate == <<0, 0, 0>>

NoFilter == [fcat |-> "All", fstart |-> NoDate, fend |-> NoDate]

\* filter widget values a user submits: category selectbox, start and end date inputs
FilterInputs ==
    {NoFilter, [fcat |-> "Food", fstart |-> <<2024, 2, 1>>, fend |-> NoDate]}

\* (date, category, amount, note) the add form submits
AddInputs ==
    {[date |-> <<2024, 1, 5>>, category |-> "Food", amount |-> number_input_min_value,
      note |-> ""]}

\* (date, category, amount, note) the edit form submits
EditInputs ==
    {[date |-> <<2024, 2, 1>>, category |-> "Travel", amount |-> MaxAmount,
      note |-> "tea"]}

\* (date, category) of the rows of a ledger that a page is rendered from
RowInputs ==
    {<<<<2024, 2, 1>>, "Food">>, <<<<2024, 2, 1>>, "Travel">>, <<<<2024, 1, 5>>, "Shopping">>,
     <<<<2024, 1, 5>>, "Entertainment">>, <<<<2024, 2, 1>>, "Other">>}

\* (username, password, confirmation) and (username, password) a visitor types
SignUpInputs ==
    {<<u, pw[1], pw[2]>> : u \in Usernames,
                           pw \in {<<"", "">>, <<"a", "a">>, <<"b", "b">>, <<"a", "b">>}}

LoginInputs == Usernames \X Passwords

\* the same, for visitors who type matching, registered credentials
ValidSignUpInputs == {<<"ann", "a", "a">>, <<"bob", "b", "b">>}

ValidLoginInputs == {<<"ann", "a">>, <<"bob", "b">>}

Event(kind, f) ==
    [kind |-> kind, user |-> "", pass |-> "", confirm |-> "", id |-> 0,
     date |-> NoDate, category |-> "", amount |-> 0, note |-> "",
     fcat |-> f.fcat, fstart |-> f.fstart, fend |-> f.fend]

NoClick == Event("none", NoFilter)

\* st.button / form_submit_button: True only in the run its own click triggered
button(c, label, key) == c.kind = label /\ c.id = key

EmptyFrame == DataFrame(<<>>)

Idle(s) == pc[s] = "idle"

----------------------------------------------------------------------------
Init ==
    /\ users = {}
    /\ user_seq = 0
    /\ expenses = {}
    /\ expense_seq = 0
    /\ logged_in = [s \in Sessions |-> FALSE]
    /\ username = [s \in Sessions |-> None]
    /\ pc = [s \in Sessions |-> "idle"]
    /\ click = [s \in Sessions |-> NoClick]
    /\ user_id = [s \in Sessions |-> 0]
    /\ df = [s \in Sessions |-> EmptyFrame]
    /\ filtered_df = [s \in Sessions |-> EmptyFrame]
    /\ form = [s \in Sessions |-> 0]
    /\ msg = [s \in Sessions |-> ""]
    /\ csv_data = [s \in Sessions |-> <<>>]
    /\ top_category = [s \in Sessions |-> NA]
    /\ created = {}

page == <<user_id, df, filtered_df, form, csv_data, top_category>>

\* a widget event starts a run of the script; the run replaces the page of the last one
Start(s, c) ==
    /\ pc' = [pc EXCEPT ![s] = "start"]
    /\ click' = [click EXCEPT ![s] = c]
    /\ msg' = [msg EXCEPT ![s] = ""]
    /\ filtered_df' = [filtered_df EXCEPT ![s] = EmptyFrame]
    /\ form' = [form EXCEPT ![s] = 0]
    /\ csv_data' = [csv_data EXCEPT ![s] = <<>>]
    /\ top_category' = [top_category EXCEPT ![s] = NA]
    /\ UNCHANGED <<store, logged_in, username, user_id, df, created>>

\* a widget event of the logged-in page: the run it starts first executes lines
\* 115-125 (no button but Logout is read there), loading user_id and df
StartLoad(s, c) ==
    /\ pc' = [pc EXCEPT ![s] = "loaded"]
    /\ click' = [click EXCEPT ![s] = c]
    /\ user_id' = [user_id EXCEPT ![s] = get_user_id(username[s])]
    /\ df' = [df EXCEPT ![s] = get_expenses(get_user_id(username[s]))]
    /\ msg' = [msg EXCEPT ![s] = ""]
    /\ filtered_df' = [filtered_df EXCEPT ![s] = EmptyFrame]
    /\ form' = [form EXCEPT ![s] = 0]
    /\ csv_data' = [csv_data EXCEPT ![s] = <<>>]
    /\ top_category' = [top_category EXCEPT ![s] = NA]
    /\ UNCHANGED <<store, logged_in, username, created>>

----------------------------------------------------------------------------
(* The logged-out page, lines 72-113 *)

ClickSignUp(s, inputs) ==
    /\ Idle(s) /\ ~logged_in[s]
    /\ \E i \in inputs :
          Start(s, [NoClick EXCEPT !.kind = "signup", !.user = i[1], !.pass = i[2],
                                   !.confirm = i[3]])

\* lines 81-95
RunSignUp(s) ==
    LET c == click[s] IN
    /\ pc[s] = "start" /\ ~logged_in[s] /\ c.kind = "signup"
    /\ pc' = [pc EXCEPT ![s] = "idle"]
    /\ IF c.user = "" \/ c.pass = ""
       THEN /\ msg' = [msg EXCEPT ![s] = MsgFieldsEmpty]
            /\ UNCHANGED <<users, user_seq, created>>
       ELSE IF c.pass # c.confirm
       THEN /\ msg' = [msg EXCEPT ![s] = MsgMismatch]
            /\ UNCHANGED <<users, user_seq, created>>
       ELSE IF UniqueViolation(users, c.user)
       THEN /\ msg' = [msg EXCEPT ![s] = MsgDuplicate]
            /\ UNCHANGED <<users, user_seq, created>>
       ELSE /\ users' = users \cup {[id |-> user_seq + 1, username |-> c.user,
                                     password |-> hash_password(c.pass)]}
            /\ user_seq' = user_seq + 1
            /\ created' = created \cup {<<c.user, c.pass>>}
            /\ msg' = [msg EXCEPT ![s] = MsgCreated]
    /\ UNCHANGED <<expenses, expense_seq, logged_in, username, click, page>>

ClickLogin(s, inputs) ==
    /\ Idle(s) /\ ~logged_in[s]
    /\ \E i \in inputs :
          Start(s, [NoClick EXCEPT !.kind = "login", !.user = i[1], !.pass = i[2]])

LoginError_enumerating(name) ==
    IF \E r \in users : r.username = name THEN "Wrong password" ELSE "Unknown user"

\* line 113
LoginError(name) == MsgInvalidLogin

\* lines 101-113; st.rerun() starts a new run of the script with no button pressed
RunLogin(s) ==
    LET c == click[s]
        hashed == hash_password(c.pass)
        user == SelectUser(c.user, hashed)
    IN
    /\ pc[s] = "start" /\ ~logged_in[s] /\ c.kind = "login"
    /\ IF user # {}
       THEN /\ logged_in' = [logged_in EXCEPT ![s] = TRUE]
            /\ username' = [username EXCEPT ![s] = c.user]
            /\ msg' = [msg EXCEPT ![s] = MsgWelcome]
            /\ click' = [click EXCEPT ![s] = Event("rerun", NoFilter)]
            /\ UNCHANGED pc
       ELSE /\ msg' = [msg EXCEPT ![s] = LoginError(c.user)]
            /\ pc' = [pc EXCEPT ![s] = "idle"]
            /\ UNCHANGED <<logged_in, username, click>>
    /\ UNCHANGED <<store, page, created>>

----------------------------------------------------------------------------
(* The logged-in page, lines 114-238 *)

ClickLogout(s) ==
    /\ Idle(s) /\ logged_in[s]
    /\ Start(s, Event("logout", NoFilter))

\* lines 119-122, then the rerun renders the logged-out page
RunLogout(s) ==
    /\ pc[s] = "start" /\ logged_in[s] /\ click[s].kind = "logout"
    /\ logged_in' = [logged_in EXCEPT ![s] = FALSE]
    /\ username' = [username EXCEPT ![s] = None]
    /\ pc' = [pc EXCEPT ![s] = "idle"]
    /\ user_id' = [user_id EXCEPT ![s] = 0]
    /\ df' = [df EXCEPT ![s] = EmptyFrame]
    /\ filtered_df' = [filtered_df EXCEPT ![s] = EmptyFrame]
    /\ form' = [form EXCEPT ![s] = 0]
    /\ msg' = [msg EXCEPT ![s] = ""]
    /\ csv_data' = [csv_data EXCEPT ![s] = <<>>]
    /\ top_category' = [top_category EXCEPT ![s] = NA]
    /\ UNCHANGED <<store, click, created>>

\* a filter widget changed, or the page was refreshed: a run with no button pressed
ClickFilter(s) ==
    /\ Idle(s) /\ logged_in[s]
    /\ \E f \in FilterInputs : StartLoad(s, Event("rerun", f))

PendingAdds == Cardinality({t \in Sessions : pc[t] = "loaded" /\ click[t].kind = "add"})

ClickAdd(s) ==
    /\ Idle(s) /\ logged_in[s]
    /\ expense_seq + PendingAdds < MaxExpenses
    /\ \E e \in AddInputs :
          StartLoad(s, [Event("add", NoFilter) EXCEPT !.date = e.date, !.category = e.category,
                                                      !.amount = e.amount, !.note = e.note])

\* the Edit and Delete buttons exist for the rows the page shows
ClickEdit(s) ==
    /\ Idle(s) /\ logged_in[s]
    /\ \E r \in IDs(filtered_df[s]) :
          StartLoad(s, [Event("edit", NoFilter) EXCEPT !.id = r])

ClickDelete(s) ==
    /\ Idle(s) /\ logged_in[s]
    /\ \E r \in IDs(filtered_df[s]) :
          StartLoad(s, [Event("delete", NoFilter) EXCEPT !.id = r])

\* Save Changes exists while the edit form is on the page
ClickSave(s) ==
    /\ Idle(s) /\ logged_in[s] /\ form[s] # 0
    /\ \E e \in EditInputs :
          StartLoad(s, [Event("save", NoFilter) EXCEPT !.id = form[s], !.date = e.date,
                                                   !.category = e.category,
                                                       !.amount = e.amount, !.note = e.note])

\* lines 115-125 of the run st.rerun() starts after a login
Load(s) ==
    /\ pc[s] = "start" /\ logged_in[s] /\ click[s].kind # "logout"
    /\ pc' = [pc EXCEPT ![s] = "loaded"]
    /\ user_id' = [user_id EXCEPT ![s] = get_user_id(username[s])]
    /\ df' = [df EXCEPT ![s] = get_expenses(get_user_id(username[s]))]
    /\ UNCHANGED <<store, logged_in, username, click, filtered_df, form, msg,
                   csv_data, top_category, created>>

\* the frame line 229 serialises: filtered_df after line 223 added its Month column
CsvFrame(frame) == WithMonth(frame)

\* lines 127-238 under the event click[s], with df and user_id as loaded
Script(s) ==
    LET c == click[s]
        added == button(c, "add", 0)
        exp1 == IF added
                THEN InsertExpense(expenses, expense_seq, user_id[s], strftime(c.date),
                                   c.category, c.amount, c.note)
                ELSE expenses
        shown == IF df[s].rows # <<>> THEN Filter(df[s], c) ELSE EmptyFrame
        rows == Range(shown.rows)
        edit == {r \in rows : button(c, "edit", r.ID)}
        \* the form and its submit button are created inside the Edit button's branch
        save == {r \in edit : button(c, "save", r.ID)}
        delete == {r \in rows : button(c, "delete", r.ID)}
        exp2 == IF save # {}
                THEN UpdateExpense(exp1, c.id, strftime(c.date), c.category, c.amount, c.note)
                ELSE exp1
        exp3 == IF delete # {} THEN DeleteExpense(exp2, c.id) ELSE exp2
    IN  [expenses |-> exp3,
         expense_seq |-> IF added THEN expense_seq + 1 ELSE expense_seq,
         filtered_df |-> shown,
         form |-> IF edit # {} /\ save = {} THEN c.id ELSE 0,
         msg |-> IF added THEN MsgAdded
                 ELSE IF save # {} THEN MsgUpdated
                 ELSE IF delete # {} THEN MsgDeleted
                 ELSE "",
         csv_data |-> IF df[s].rows # <<>> THEN to_csv(CsvFrame(shown)) ELSE <<>>,
         top_category |-> TopCategory(df[s])]

\* the effects of the run on the database and on the page
Render(s, out) ==
    /\ pc' = [pc EXCEPT ![s] = "idle"]
    /\ expenses' = out.expenses
    /\ expense_seq' = out.expense_seq
    /\ filtered_df' = [filtered_df EXCEPT ![s] = out.filtered_df]
    /\ form' = [form EXCEPT ![s] = out.form]
    /\ msg' = [msg EXCEPT ![s] = out.msg]
    /\ csv_data' = [csv_data EXCEPT ![s] = out.csv_data]
    /\ top_category' = [top_category EXCEPT ![s] = out.top_category]
    /\ click' = [click EXCEPT ![s] = NoClick]
    /\ df' = [df EXCEPT ![s] = EmptyFrame]
    /\ UNCHANGED <<users, user_seq, logged_in, username, user_id, created>>

\* the run after a login, a refresh or a filter change: no button reads True
RunRefresh(s) ==
    /\ pc[s] = "loaded" /\ click[s].kind = "rerun"
    /\ \E out \in {Script(s)} : Render(s, out)

\* lines 154-160
RunAdd(s) ==
    /\ pc[s] = "loaded" /\ click[s].kind = "add"
    /\ \E out \in {Script(s)} : Render(s, out)

\* lines 186-194: the run of the Edit click renders the form
RunEdit(s) ==
    /\ pc[s] = "loaded" /\ click[s].kind = "edit"
    /\ \E out \in {Script(s)} : Render(s, out)

\* lines 186-201 in the run of the Save Changes click
RunSave(s) ==
    /\ pc[s] = "loaded" /\ click[s].kind = "save"
    /\ \E out \in {Script(s)} : Render(s, out)

\* lines 202-207
RunDelete(s) ==
    /\ pc[s] = "loaded" /\ click[s].kind = "delete"
    /\ \E out \in {Script(s)} : Render(s, out)

\* Two sessions of visitors with registered credentials, working on their ledgers
Next ==
    \E s \in Sessions :
        \/ ClickSignUp(s, ValidSignUpInputs) \/ RunSignUp(s)
        \/ ClickLogin(s, ValidLoginInputs) \/ RunLogin(s)
        \/ ClickLogout(s) \/ RunLogout(s)
        \/ ClickFilter(s) \/ ClickAdd(s) \/ ClickEdit(s) \/ ClickDelete(s) \/ ClickSave(s)
        \/ Load(s)
        \/ RunRefresh(s) \/ RunAdd(s) \/ RunEdit(s) \/ RunSave(s) \/ RunDelete(s)

Spec == Init /\ [][Next]_vars

\* Two sessions signing up, logging in and out with any credentials
AuthNext ==
    \E s \in Sessions :
        \/ ClickSignUp(s, SignUpInputs) \/ RunSignUp(s)
        \/ ClickLogin(s, LoginInputs) \/ RunLogin(s)
        \/ ClickLogout(s) \/ RunLogout(s)
        \/ Load(s) \/ RunRefresh(s)

AuthSpec == Init /\ [][AuthNext]_vars

\* One logged-in session rendering its page, with filters, from a ledger of up to
\* MaxRows records added earlier
PageInit ==
    /\ users = {[id |-> 1, username |-> "ann", password |-> hash_password("a")]}
    /\ user_seq = 1
    /\ created = {<<"ann", "a">>}
    /\ \E n \in 0..MaxRows :
          \E rows \in [1..n -> RowInputs \X (number_input_min_value..MaxAmount)] :
             /\ expenses = {[id |-> i, user_id |-> 1, date |-> strftime(rows[i][1][1]),
                             category |-> rows[i][1][2], amount |-> rows[i][2],
                             note |-> ""] : i \in 1..n}
             /\ expense_seq = n
    /\ logged_in = [s \in Sessions |-> s = "s1"]
    /\ username = [s \in Sessions |-> IF s = "s1" THEN "ann" ELSE None]
    /\ pc = [s \in Sessions |-> IF s = "s1" THEN "start" ELSE "idle"]
    /\ click = [s \in Sessions |-> IF s = "s1" THEN Event("rerun", NoFilter) ELSE NoClick]
    /\ user_id = [s \in Sessions |-> 0]
    /\ df = [s \in Sessions |-> EmptyFrame]
    /\ filtered_df = [s \in Sessions |-> EmptyFrame]
    /\ form = [s \in Sessions |-> 0]
    /\ msg = [s \in Sessions |-> IF s = "s1" THEN MsgWelcome ELSE ""]
    /\ csv_data = [s \in Sessions |-> <<>>]
    /\ top_category = [s \in Sessions |-> NA]

PageNext == \E s \in Sessions : Load(s) \/ ClickFilter(s) \/ RunRefresh(s)

PageSpec == PageInit /\ [][PageNext]_vars

----------------------------------------------------------------------------
(* Properties *)

\* session s takes a step of its running script
Ran(s) == pc[s] # "idle" /\ (pc'[s] # pc[s] \/ click'[s] # click[s])

\* session s finishes the run of the logged-in page it had loaded
Acts(s) == pc[s] = "loaded" /\ pc'[s] = "idle"

Absent(table, id) == \A e \in table : e.id # id

\* C1: once sign-up with a non-empty (u, p) has succeeded, every login run with u
\* logs the session in as u when the secret typed is p, and leaves it logged out,
\* with no username, when the secret typed is any other.
C1_AuthenticateAfterCreate ==
    [][\A s \in Sessions :
          (Ran(s) /\ pc[s] = "start" /\ click[s].kind = "login" /\ ~logged_in[s]) =>
             \A p \in Passwords :
                <<click[s].user, p>> \in created =>
                   IF click[s].pass = p
                   THEN logged_in'[s] /\ username'[s] = click[s].user
                   ELSE ~logged_in'[s] /\ username'[s] = None]_vars

C1_Witness ==
    \E s, t \in Sessions :
        /\ <<"ann", "a">> \in created
        /\ logged_in[s] /\ username[s] = "ann" /\ pc[s] = "idle"
        /\ ~logged_in[t] /\ pc[t] = "idle" /\ msg[t] = MsgInvalidLogin
        /\ click[t].kind = "login" /\ click[t].user = "ann" /\ click[t].pass = "b"

UniqueUsernames(table) == \A a, b \in table : a.username = b.username => a = b

IsSignUpRun(s) == Ran(s) /\ pc[s] = "start" /\ click[s].kind = "signup" /\ ~logged_in[s]

Registered(name) == \E r \in users : r.username = name

\* C2 as stated: a sign-up with a username already in the users table fails with
\* the duplicate-username error whatever secret is given and leaves the table
\* unchanged, and no two users ever share a username.
C2_DuplicateWhateverSecret ==
    [][/\ \A s \in Sessions :
             (IsSignUpRun(s) /\ Registered(click[s].user)) =>
                msg'[s] = MsgDuplicate /\ users' = users
       /\ UniqueUsernames(users')]_vars

\* C2 as amended: a sign-up with a username already in the users table leaves the
\* table unchanged; it fails with the duplicate-username error whenever the secret
\* is non-empty and equals its confirmation, with the empty-fields error when the
\* secret is empty, and with the mismatch error otherwise; no two users ever
\* share a username.
C2_DuplicateRejected ==
    [][/\ \A s \in Sessions :
             (IsSignUpRun(s) /\ Registered(click[s].user)) =>
                /\ users' = users
                /\ msg'[s] = IF click[s].pass = "" THEN MsgFieldsEmpty
                             ELSE IF click[s].pass # click[s].confirm THEN MsgMismatch
                             ELSE MsgDuplicate
       /\ UniqueUsernames(users')]_vars

C2_Witness ==
    \E s \in Sessions :
        /\ pc[s] = "idle" /\ click[s].kind = "signup" /\ msg[s] = MsgDuplicate
        /\ click[s].user = "ann" /\ click[s].pass = "b"
        /\ <<"ann", "a">> \in created
        /\ \E r \in users : r.username = "bob"

\* C3: an expense id that is absent after having been assigned stays absent (ids are
\* not reused), and a run that executes the delete of an absent id does not report
\* the deletion as done.
C3_DeleteThenNotFound ==
    [][/\ \A i \in 1..expense_seq : Absent(expenses, i) => Absent(expenses', i)
       /\ \A s \in Sessions :
             (Acts(s) /\ click[s].kind = "delete" /\ Absent(expenses, click[s].id)) =>
                msg'[s] # MsgDeleted]_vars

\* C4: when the owner's edit of an existing record r is submitted with (d2, c2, a2, n2),
\* the owner's records then hold exactly one record with id r, carrying
\* (d2, c2, a2, n2) and its owner, and every other record is unchanged.
C4_UpdateRoundTrip ==
    [][\A s \in Sessions :
          (Acts(s) /\ click[s].kind = "save"
             /\ \E e \in expenses : e.id = click[s].id /\ e.user_id = user_id[s]) =>
             LET c == click[s]
                 listed == {e \in expenses' : e.user_id = user_id[s] /\ e.id = c.id}
             IN  /\ listed = {[id |-> c.id, user_id |-> user_id[s], date |-> strftime(c.date),
                               category |-> c.category, amount |-> c.amount,
                               note |-> c.note]}
                 /\ {e \in expenses' : e.id # c.id} = {e \in expenses : e.id # c.id}]_vars

\* C5: every expense record is owned by an existing user, has an amount of at least
\* 1 and a category of the fixed enumeration.
C5_RecordsWellFormed ==
    \A e \in expenses :
        /\ \E u \in users : u.id = e.user_id
        /\ e.amount >= 1
        /\ e.category \in CategorySet

C5_Witness ==
    /\ \E e, f \in expenses : e.user_id # f.user_id
    /\ \E s \in Sessions : logged_in[s] /\ pc[s] = "idle" /\ msg[s] = MsgAdded

\* C6: the run of a Save Changes click on the edit form of a record shown to its
\* logged-in owner executes the update: it reports the update and the stored record
\* carries the submitted date, category, amount and note.
C6_SaveExecutesUpdate ==
    [][\A s \in Sessions :
          (Acts(s) /\ click[s].kind = "save" /\ click[s].id \in IDs(df[s])
             /\ ~Absent(expenses, click[s].id)) =>
             /\ msg'[s] = MsgUpdated
             /\ expenses' = UpdateExpense(expenses, click[s].id, strftime(click[s].date),
                                          click[s].category, click[s].amount,
                                          click[s].note)]_vars

\* C7: the CSV export has the header ID, Date, Category, Amount, Note and nothing
\* else in it, followed by one line per record of the filtered set.
C7_CsvHeaderAndRows ==
    \A s \in Sessions :
        csv_data[s] # <<>> =>
            /\ Head(csv_data[s]) = <<"ID", "Date", "Category", "Amount", "Note">>
            /\ Len(csv_data[s]) = 1 + Len(filtered_df[s].rows)

RECURSIVE Total(_)
Total(S) ==
    IF S = {} THEN 0
    ELSE LET e == CHOOSE x \in S : TRUE IN e.amount + Total(S \ {e})

Ledger(s) == {e \in expenses : e.user_id = user_id[s]}

CategoryTotal(s, c) == Total({e \in Ledger(s) : e.category = c})

Present(s) == {e.category : e \in Ledger(s)}

Maximal(s) == {c \in Present(s) : \A d \in Present(s) : CategoryTotal(s, d) <= CategoryTotal(s, c)}

Rendered(s) == logged_in[s] /\ pc[s] = "idle"

\* C8: the dashboard's top category is "N/A" over an empty ledger; otherwise it is a
\* category of maximal summed amount and, among those, the least in string order,
\* whatever the order in which the records were added.
C8_TopCategory ==
    \A s \in Sessions :
        Rendered(s) =>
            IF Ledger(s) = {} THEN top_category[s] = NA
            ELSE /\ top_category[s] \in Maximal(s)
                 /\ \A c \in Maximal(s) : c = top_category[s] \/ StrLess(top_category[s], c)

C8_Witness ==
    \E s \in Sessions :
        /\ Rendered(s)
        /\ Cardinality(Maximal(s)) >= 2
        /\ \E e \in Ledger(s) : e.id = 1 /\ e.category \in Maximal(s)
                                /\ e.category # top_category[s]
        /\ Cardinality(Present(s)) = 3

FailedLogin(s) == pc[s] = "idle" /\ click[s].kind = "login" /\ ~logged_in[s]

Public(s) == <<msg[s], logged_in[s], username[s]>>

\* C9: any two failed logins show the same error and leave the same session state,
\* whether or not the username attempted is in the users table.
C9_FailedLoginsAlike ==
    \A s, t \in Sessions :
        (FailedLogin(s) /\ FailedLogin(t)) =>
            Public(s) = Public(t) /\ Public(s) = <<MsgInvalidLogin, FALSE, None>>

C9_Witness ==
    \E s, t \in Sessions :
        /\ FailedLogin(s) /\ FailedLogin(t)
        /\ click[s].user = "bob" /\ ~Registered("bob") /\ click[s].pass = "a"
        /\ click[t].user = "ann" /\ click[t].pass = "b" /\ <<"ann", "a">> \in created

\* C10: a record is changed or removed only by the run of a session logged in as its
\* owner that targets its id among the records loaded in that run, and a record is
\* added only by the run of a session logged in as its owner.
C10_OnlyOwnerMutates ==
    [][/\ \A e \in expenses \ expenses' :
             \E s \in Sessions :
                /\ Acts(s) /\ logged_in[s]
                /\ get_user_id(username[s]) = e.user_id
                /\ click[s].id = e.id /\ e.id \in IDs(df[s])
       /\ \A e \in expenses' \ expenses :
             \E s \in Sessions :
                /\ Acts(s) /\ logged_in[s]
                /\ get_user_id(username[s]) = e.user_id]_vars

C10_Witness ==
    \E s, t \in Sessions :
        /\ logged_in[s] /\ logged_in[t] /\ username[s] # username[t]
        /\ pc[s] = "idle" /\ msg[s] = MsgDeleted
        /\ expense_seq = 2
        /\ \E e \in expenses : expenses = {e} /\ e.user_id = user_id[t]

====
